---------------------------- MODULE Spec2Model ----------------------------
(***************************************************************************)
(* Model of scripts/clean_subtitle.py: the SubtitleCleaner pipeline        *)
(* (load, extract, remove_duplicates, merge_consecutive_segments,          *)
(* format_paragraphs, clean_text, statistics, save) and the command-line   *)
(* entry point main().                                                     *)
(*                                                                         *)
(* A text is a sequence of characters; a character is a one-element token  *)
(* ("a", ".", " ", "NL" for the line feed, "u4e2d" for U+4E2D, ...).       *)
(* The regular-expression calls of the source are modelled by operators    *)
(* that scan the text left to right the way re.sub / re.split do           *)
(* (leftmost match, non-overlapping, the scan resumes after the match).    *)
(***************************************************************************)
EXTENDS Integers, Sequences, FiniteSets, TLC

(***************************************************************************)
(* Bounds of the model                                                     *)
(***************************************************************************)
MaxSegs == 4        \* fragments per document in the fragment-level corpora
MaxSentences == 7   \* fragments per document in the sentence corpus
MaxMixed == 3       \* fragments per document in the mixed sentence corpus
MaxCalls == 2       \* process_file calls made on one SubtitleCleaner
MaxSeconds == 1     \* largest elapsed time (whole seconds) the clock reports

(***************************************************************************)
(* Characters and character classes                                        *)
(***************************************************************************)
SP == " "
NL == "NL"

UpperCase == <<"A","B","C","D","E","F","G","H","I","J","K","L","M",
               "N","O","P","Q","R","S","T","U","V","W","X","Y","Z">>
LowerCase == <<"a","b","c","d","e","f","g","h","i","j","k","l","m",
               "n","o","p","q","r","s","t","u","v","w","x","y","z">>
Digits == {"0","1","2","3","4","5","6","7","8","9"}

Range(s) == {s[i] : i \in DOMAIN s}

\* the class U+4E00..U+9FFF: the ideographs the model uses
CJK == {"u4e2d", "u6587", "u5b57"}
\* the classes U+3040..U+309F and U+30A0..U+30FF: the kana the model uses
Kana == {"u3042", "u30ab"}
\* [a-zA-Z0-9]
AsciiAlnum == Range(UpperCase) \cup Range(LowerCase) \cup Digits
\* the class of kana and ideographs of the ja branch
Japanese == Kana \cup CJK

\* \s of the re module
IsSpace(c) == c \in {SP, NL}
\* [.!?]
IsEndMark(c) == c \in {".", "!", "?"}
\* \w of the re module on str patterns (Unicode word characters)
IsWord(c) == c \in AsciiAlnum \cup {"_"} \cup CJK \cup Kana

\* str.lower() on one character
LowerChar(c) ==
  IF c \in Range(UpperCase)
    THEN LowerCase[CHOOSE i \in DOMAIN UpperCase : UpperCase[i] = c]
    ELSE c

\* str.lower()
Lower(s) == [i \in DOMAIN s |-> LowerChar(s[i])]

(***************************************************************************)
(* str helpers                                                             *)
(***************************************************************************)
\* index of the first character at or after i that is not whitespace
\* (Len(s) + 1 when there is none): the end of a greedy \s+ run
RECURSIVE SkipSpace(_, _)
SkipSpace(s, i) ==
  IF i <= Len(s) /\ IsSpace(s[i]) THEN SkipSpace(s, i + 1) ELSE i

RECURSIVE LStrip(_)
LStrip(s) == IF s # <<>> /\ IsSpace(Head(s)) THEN LStrip(Tail(s)) ELSE s

RECURSIVE RStrip(_)
RStrip(s) ==
  IF s # <<>> /\ IsSpace(s[Len(s)]) THEN RStrip(SubSeq(s, 1, Len(s) - 1)) ELSE s

\* str.strip()
Strip(s) == RStrip(LStrip(s))

\* sep.join(parts)
RECURSIVE Join(_, _)
Join(sep, parts) ==
  IF parts = <<>> THEN <<>>
  ELSE IF Len(parts) = 1 THEN parts[1]
  ELSE parts[1] \o sep \o Join(sep, Tail(parts))

\* str.endswith(('.', '?', '!'))
EndsWithMark(s) == s # <<>> /\ IsEndMark(s[Len(s)])

\* w in s (substring test)
Contains(s, w) ==
  \E i \in 1..(Len(s) - Len(w) + 1) : SubSeq(s, i, i + Len(w) - 1) = w

\* len(text.split()): the number of maximal runs of non-whitespace
WordCount(s) ==
  Cardinality({i \in DOMAIN s :
                 ~IsSpace(s[i]) /\ (i = 1 \/ IsSpace(s[i - 1]))})

(***************************************************************************)
(* The regular-expression calls, each as the left-to-right scan re.sub     *)
(* performs: at position i either the pattern matches there (emit the      *)
(* replacement, resume after the match) or s[i] is copied and the scan     *)
(* moves to i + 1.                                                         *)
(***************************************************************************)
\* re.sub(r'\s+([.!?])', r'\1', text)
RECURSIVE SubSpaceBeforeMark(_, _)
SubSpaceBeforeMark(s, i) ==
  IF i > Len(s) THEN <<>>
  ELSE LET j == SkipSpace(s, i)
       IN  IF IsSpace(s[i]) /\ j <= Len(s) /\ IsEndMark(s[j])
             THEN <<s[j]>> \o SubSpaceBeforeMark(s, j + 1)
             ELSE <<s[i]>> \o SubSpaceBeforeMark(s, i + 1)

\* re.sub(r'([.!?])(\w)', r'\1 \2', text)
RECURSIVE SubMarkBeforeWord(_, _)
SubMarkBeforeWord(s, i) ==
  IF i > Len(s) THEN <<>>
  ELSE IF IsEndMark(s[i]) /\ i + 1 <= Len(s) /\ IsWord(s[i + 1])
         THEN <<s[i], SP, s[i + 1]>> \o SubMarkBeforeWord(s, i + 2)
         ELSE <<s[i]>> \o SubMarkBeforeWord(s, i + 1)

\* re.split(r'(?<=[.!?])\s+', text): from position i, with the piece that
\* started at position from
RECURSIVE SplitSentences(_, _, _)
SplitSentences(s, from, i) ==
  IF i > Len(s) THEN <<SubSeq(s, from, Len(s))>>
  ELSE IF i > 1 /\ IsEndMark(s[i - 1]) /\ IsSpace(s[i])
         THEN LET j == SkipSpace(s, i)
              IN  <<SubSeq(s, from, i - 1)>> \o SplitSentences(s, j, j)
         ELSE SplitSentences(s, from, i + 1)

\* index of the first closer at or after j with no line feed before it, 0 when
\* there is none: '.*?' followed by the closer ('.' does not match a line feed)
RECURSIVE FindCloser(_, _, _)
FindCloser(s, j, closer) ==
  IF j > Len(s) THEN 0
  ELSE IF s[j] = closer THEN j
  ELSE IF s[j] = NL THEN 0
  ELSE FindCloser(s, j + 1, closer)

\* re.sub(opener + r'.*?' + closer, '', text)
RECURSIVE SubDelimited(_, _, _, _)
SubDelimited(s, i, opener, closer) ==
  IF i > Len(s) THEN <<>>
  ELSE LET j == FindCloser(s, i + 1, closer)
       IN  IF s[i] = opener /\ j # 0
             THEN SubDelimited(s, j + 1, opener, closer)
             ELSE <<s[i]>> \o SubDelimited(s, i + 1, opener, closer)

\* re.sub(r'\s+', ' ', text)
RECURSIVE SubSpaceRuns(_, _)
SubSpaceRuns(s, i) ==
  IF i > Len(s) THEN <<>>
  ELSE IF IsSpace(s[i])
         THEN <<SP>> \o SubSpaceRuns(s, SkipSpace(s, i))
         ELSE <<s[i]>> \o SubSpaceRuns(s, i + 1)

\* re.sub(r'([X])\s+([X])', r'\1\2', text) for the character class X = class
RECURSIVE SubSpaceBetween(_, _, _)
SubSpaceBetween(s, i, class) ==
  IF i > Len(s) THEN <<>>
  ELSE LET j == SkipSpace(s, i + 1)
       IN  IF s[i] \in class /\ j > i + 1 /\ j <= Len(s) /\ s[j] \in class
             THEN <<s[i], s[j]>> \o SubSpaceBetween(s, j + 1, class)
             ELSE <<s[i]>> \o SubSpaceBetween(s, i + 1, class)

\* re.sub(r'([X])([Y])', r'\1 \2', text) for the classes X = first, Y = second
RECURSIVE SubInsertSpace(_, _, _, _)
SubInsertSpace(s, i, first, second) ==
  IF i > Len(s) THEN <<>>
  ELSE IF s[i] \in first /\ i + 1 <= Len(s) /\ s[i + 1] \in second
         THEN <<s[i], SP, s[i + 1]>> \o SubInsertSpace(s, i + 2, first, second)
         ELSE <<s[i]>> \o SubInsertSpace(s, i + 1, first, second)

(***************************************************************************)
(* The methods of SubtitleCleaner as functions of their arguments and of   *)
(* self.stats.  A method that updates self.stats returns the record        *)
(* [ret |-> its return value, stats |-> self.stats afterwards].            *)
(***************************************************************************)
\* default of min_segment_length (kwargs.get(..., 10), argparse default=10)
DefaultMinSegmentLength == 10
\* the paragraph heuristic closes a paragraph that holds this many sentences
ParagraphSentences == 3

\* self.stats as __init__ leaves it
InitStats ==
  [original_segments |-> 0, processed_segments |-> 0, removed_duplicates |-> 0,
   removed_timestamps |-> 0, total_characters |-> 0, total_words |-> 0,
   processing_time |-> 0]

\* the contents an input path can have: no file at the path, a file that is
\* not JSON, or a JSON object data; data has the key 'events' or not
\* a seg of an event: utf8 is "absent" (no 'utf8' key), "str" (a string,
\* text) or "int" (a number, which has no strip())
Seg(text) == [utf8 |-> "str", text |-> text]
SegNoKey == [utf8 |-> "absent", text |-> <<>>]
SegInt == [utf8 |-> "int", text |-> <<>>]
\* an event: with its 'segs' list, or without the key
Event(segs) == [has_segs |-> TRUE, segs |-> segs]
EventNoSegs == [has_segs |-> FALSE, segs |-> <<>>]

\* the segs of data.get('events', []) in document order, those of events
\* without 'segs' left out
RECURSIVE AllSegs(_)
AllSegs(events) ==
  IF events = <<>> THEN <<>>
  ELSE (IF Head(events).has_segs THEN Head(events).segs ELSE <<>>)
         \o AllSegs(Tail(events))

\* extract_text_segments raises: seg['utf8'].strip() on a value with no strip()
ExtractRaises(data) == \E i \in DOMAIN AllSegs(data.events) : AllSegs(data.events)[i].utf8 = "int"

\* the loop of extract_text_segments over the segs
RECURSIVE ExtractLoop(_)
ExtractLoop(segs) ==
  IF segs = <<>> THEN <<>>
  ELSE (IF Head(segs).utf8 = "str" /\ Strip(Head(segs).text) # <<>>
          THEN <<Strip(Head(segs).text)>> ELSE <<>>)
         \o ExtractLoop(Tail(segs))

\* extract_text_segments(data)
ExtractTextSegments(data, stats) ==
  LET segments == ExtractLoop(AllSegs(data.events))
  IN  [ret |-> segments,
       stats |-> [stats EXCEPT !.original_segments = Len(segments)]]

\* a remove_duplicates that drops a fragment equal to any fragment kept so far
RECURSIVE RemoveDuplicatesLoopAnyKept(_, _, _, _)
RemoveDuplicatesLoopAnyKept(segments, i, cleaned, duplicates_removed) ==
  IF i > Len(segments)
    THEN [cleaned |-> cleaned, duplicates_removed |-> duplicates_removed]
  ELSE IF segments[i] \notin Range(cleaned)
    THEN RemoveDuplicatesLoopAnyKept(segments, i + 1, Append(cleaned, segments[i]),
                                     duplicates_removed)
  ELSE RemoveDuplicatesLoopAnyKept(segments, i + 1, cleaned, duplicates_removed + 1)

\* the for loop of remove_duplicates from index i (1-based: segments[i] is
\* compared with segments[i - 1])
RECURSIVE RemoveDuplicatesLoop(_, _, _, _)
RemoveDuplicatesLoop(segments, i, cleaned, duplicates_removed) ==
  IF i > Len(segments)
    THEN [cleaned |-> cleaned, duplicates_removed |-> duplicates_removed]
  ELSE IF segments[i] # segments[i - 1]
    THEN RemoveDuplicatesLoop(segments, i + 1, Append(cleaned, segments[i]),
                              duplicates_removed)
  ELSE RemoveDuplicatesLoop(segments, i + 1, cleaned, duplicates_removed + 1)

\* remove_duplicates(segments)
RemoveDuplicates(segments, stats) ==
  IF segments = <<>> THEN [ret |-> segments, stats |-> stats]
  ELSE LET r == RemoveDuplicatesLoop(segments, 2, <<segments[1]>>, 0)
       IN  [ret |-> r.cleaned,
            stats |-> [stats EXCEPT !.removed_duplicates = r.duplicates_removed]]

\* a merge loop whose look-ahead test is off by one: the fragment before the
\* last is never merged
RECURSIVE MergeLoopOffByOne(_, _, _, _)
MergeLoopOffByOne(segments, min_length, i, merged) ==
  IF i > Len(segments) THEN merged
  ELSE IF Len(segments[i]) < min_length /\ i + 1 < Len(segments)
    THEN MergeLoopOffByOne(segments, min_length, i + 2,
                           Append(merged, segments[i] \o <<SP>> \o segments[i + 1]))
  ELSE MergeLoopOffByOne(segments, min_length, i + 1, Append(merged, segments[i]))

\* a merge loop that joins the two fragments without the space
RECURSIVE MergeLoopNoSpace(_, _, _, _)
MergeLoopNoSpace(segments, min_length, i, merged) ==
  IF i > Len(segments) THEN merged
  ELSE IF Len(segments[i]) < min_length /\ i + 1 <= Len(segments)
    THEN MergeLoopNoSpace(segments, min_length, i + 2,
                          Append(merged, segments[i] \o segments[i + 1]))
  ELSE MergeLoopNoSpace(segments, min_length, i + 1, Append(merged, segments[i]))

\* the while loop of merge_consecutive_segments from index i
RECURSIVE MergeLoop(_, _, _, _)
MergeLoop(segments, min_length, i, merged) ==
  IF i > Len(segments) THEN merged
  ELSE IF Len(segments[i]) < min_length /\ i + 1 <= Len(segments)
    THEN MergeLoop(segments, min_length, i + 2,
                   Append(merged, segments[i] \o <<SP>> \o segments[i + 1]))
  ELSE MergeLoop(segments, min_length, i + 1, Append(merged, segments[i]))

\* merge_consecutive_segments(segments, min_length)
MergeConsecutiveSegments(segments, min_length) ==
  IF segments = <<>> THEN segments
  ELSE MergeLoop(segments, min_length, 1, <<>>)

\* the two punctuation-spacing substitutions of format_paragraphs
NormalizePunctuation(text) ==
  SubMarkBeforeWord(SubSpaceBeforeMark(text, 1), 1)

\* the discourse markers of the paragraph heuristic
Indicators ==
  { <<"h","o","w","e","v","e","r">>,
    <<"t","h","e","r","e","f","o","r","e">>,
    <<"m","o","r","e","o","v","e","r">>,
    <<"f","u","r","t","h","e","r","m","o","r","e">> }

\* a paragraph condition that closes a paragraph one sentence early
EndsParagraphEarly(current_paragraph, sentence) ==
  /\ Len(current_paragraph) >= ParagraphSentences - 1
  /\ \/ EndsWithMark(sentence)
     \/ \E indicator \in Indicators : Contains(Lower(sentence), indicator)

\* the condition that ends the current paragraph
EndsParagraph(current_paragraph, sentence) ==
  /\ Len(current_paragraph) >= ParagraphSentences
  /\ \/ EndsWithMark(sentence)
     \/ \E indicator \in Indicators : Contains(Lower(sentence), indicator)

\* the for loop of format_paragraphs over sentences, from index i; the
\* remaining current_paragraph is added after the loop
RECURSIVE ParagraphLoop(_, _, _, _)
ParagraphLoop(sentences, i, paragraphs, current_paragraph) ==
  IF i > Len(sentences)
    THEN IF current_paragraph # <<>>
           THEN Append(paragraphs, Join(<<SP>>, current_paragraph))
           ELSE paragraphs
  ELSE LET sentence == Strip(sentences[i])
           grown == Append(current_paragraph, sentence)
       IN  IF sentence = <<>>
             THEN ParagraphLoop(sentences, i + 1, paragraphs, current_paragraph)
           ELSE IF EndsParagraph(grown, sentence)
             THEN ParagraphLoop(sentences, i + 1,
                                Append(paragraphs, Join(<<SP>>, grown)), <<>>)
           ELSE ParagraphLoop(sentences, i + 1, paragraphs, grown)

\* the sentences format_paragraphs splits the joined, normalized text into
Sentences(segments) ==
  SplitSentences(NormalizePunctuation(Join(<<SP>>, segments)), 1, 1)

\* the list paragraphs of format_paragraphs
Paragraphs(segments) == ParagraphLoop(Sentences(segments), 1, <<>>, <<>>)

\* format_paragraphs(segments)
FormatParagraphs(segments) == Join(<<NL, NL>>, Paragraphs(segments))

\* the three removals of clean_text: [...], (...), <...>
RemoveArtifacts(text) ==
  SubDelimited(SubDelimited(SubDelimited(text, 1, "[", "]"), 1, "(", ")"),
               1, "<", ">")

\* the 'ko' pattern of the source holds the range U+20AC-U+00ED, which re
\* rejects ("bad character range"): re.sub raises re.error
LanguageSpecificRaises(language_code) == language_code = "ko"

\* _language_specific_cleaning(text, language_code), where it does not raise;
\* a language code is a string, "None" standing for None
LanguageSpecificCleaning(text, language_code) ==
  IF language_code = "zh"
    THEN SubInsertSpace(
           SubInsertSpace(SubSpaceBetween(text, 1, CJK), 1, CJK, AsciiAlnum),
           1, AsciiAlnum, CJK)
  ELSE IF language_code = "ja"
    THEN SubSpaceBetween(text, 1, Japanese)
  ELSE text

\* clean_text raises
CleanTextRaises(language_code) ==
  language_code # "None" /\ LanguageSpecificRaises(language_code)

\* clean_text(text, language_code), where it does not raise
CleanText(text, language_code) ==
  LET normalized == Strip(SubSpaceRuns(RemoveArtifacts(text), 1))
  IN  IF language_code # "None"
        THEN LanguageSpecificCleaning(normalized, language_code)
        ELSE normalized

(***************************************************************************)
(* Keyword arguments of process_file and the command line of main()        *)
(***************************************************************************)
\* kwargs: given is the set of keys the caller passes; a key not in given
\* takes the default of kwargs.get
KwargsGet(kwargs, key, default) ==
  IF key \in kwargs.given THEN kwargs[key] ELSE default

OptionKeys ==
  {"remove_timestamps", "merge_duplicates", "format_paragraphs",
   "min_segment_length", "language_code"}

\* the flags add_argument declares with action='store_true'
StoreTrueFlags ==
  {"--remove-timestamps", "--merge-duplicates", "--format-paragraphs", "--verbose"}
\* flags main() does not declare; '--no-format-paragraphs' is the one its
\* epilog shows
UndeclaredFlags == {"--no-format-paragraphs", "--no-merge-duplicates"}

\* action='store_true' with the given default
StoreTrue(flag, default, flags) == IF flag \in flags THEN TRUE ELSE default

\* parser.parse_args(): error is argparse's usage error (exit status 2)
ParseArgs(cmd) ==
  [error |-> cmd.flags \cap UndeclaredFlags # {},
   input |-> cmd.input,
   output |-> cmd.output,
   remove_timestamps |-> StoreTrue("--remove-timestamps", TRUE, cmd.flags),
   merge_duplicates |-> StoreTrue("--merge-duplicates", TRUE, cmd.flags),
   format_paragraphs |-> StoreTrue("--format-paragraphs", TRUE, cmd.flags),
   min_segment_length |->
     IF cmd.min_segment_length.given THEN cmd.min_segment_length.value
     ELSE DefaultMinSegmentLength,
   language_code |-> cmd.language_code,
   verbose |-> StoreTrue("--verbose", FALSE, cmd.flags)]

\* processing_options of main()
ProcessingOptions(args) ==
  [given |-> OptionKeys,
   remove_timestamps |-> args.remove_timestamps,
   merge_duplicates |-> args.merge_duplicates,
   format_paragraphs |-> args.format_paragraphs,
   min_segment_length |-> args.min_segment_length,
   language_code |-> args.language_code]

(***************************************************************************)
(* The inputs the callers of the model use: files, output paths, options   *)
(***************************************************************************)
Hello == <<"H","e","l","l","o",".">>
World == <<"W","o","r","l","d">>
Hi == <<"H","i">>
ThereHow ==
  <<"t","h","e","r","e",","," ","h","o","w"," ","a","r","e"," ","y","o","u","?">>
HiDot == <<"H","i",".">>
NoBang == <<"n","o","!">>
OpenAB == <<"[","a",".","b",".">>
CloseD == <<"d","]">>
SoDot == <<"s","o"," ",".">>
However == <<"H","o","w","e","v","e","r">>
Zhong == <<"u4e2d">>
Wen == <<"u6587">>
LatinA == <<"a">>
MusicCue == <<"[","m","u","s","i","c","]"," ","u4e2d">>

\* all sequences over vocab of length at most n
RECURSIVE SeqsUpTo(_, _)
SeqsUpTo(vocab, n) ==
  IF n = 0 THEN {<<>>}
  ELSE LET shorter == SeqsUpTo(vocab, n - 1)
       IN  shorter \cup {Append(q, v) : q \in shorter, v \in vocab}

\* a well-formed file with one event per fragment
DocOf(fragments) ==
  [kind |-> "ok",
   events |-> [i \in DOMAIN fragments |-> Event(<<Seg(fragments[i])>>)]]

MissingFile == [kind |-> "missing", events |-> <<>>]
InvalidJson == [kind |-> "invalid_json", events |-> <<>>]
NoEvents == [kind |-> "no_events", events |-> <<>>]
IntSegDoc == [kind |-> "ok", events |-> <<Event(<<Seg(Hi), SegInt>>)>>]
\* events without 'segs', segs without 'utf8', blank and untrimmed segs
StructuredDoc ==
  [kind |-> "ok",
   events |-> << EventNoSegs,
                 Event(<<SegNoKey, Seg(<<NL>>), Seg(<<SP>> \o Hello \o <<NL>>)>>),
                 Event(<<>>),
                 Event(<<Seg(Hello), Seg(World)>>) >>]
BadFiles == {MissingFile, InvalidJson, NoEvents, IntSegDoc}

\* the input files of a suite: "program", "reuse", "fragments", "sentences"
\* or "cjk"
Corpus(s) ==
  BadFiles \cup
  CASE s = "program" ->
         {StructuredDoc, DocOf(<<Hello, Hello, World>>), DocOf(<<Hi, ThereHow>>),
          DocOf(<<HiDot, NoBang, HiDot, NoBang, Zhong, Wen>>)}
    [] s = "reuse" ->
         {DocOf(<<Hello, Hello, World>>), DocOf(<<Hi, ThereHow>>), DocOf(<<>>)}
    [] s = "fragments" ->
         {DocOf(f) : f \in SeqsUpTo({Hello, Hi, ThereHow}, MaxSegs)}
    [] s = "sentences" ->
         {DocOf(f) : f \in SeqsUpTo({HiDot, NoBang}, MaxSentences)}
         \cup {DocOf(f) : f \in SeqsUpTo({OpenAB, CloseD, SoDot, However}, MaxMixed)}
    [] s = "cjk" ->
         {DocOf(f) : f \in SeqsUpTo({Zhong, Wen, LatinA, MusicCue}, MaxSegs)}

\* output paths; a write to a path in Unwritable raises OSError
OutputPaths == {"out.txt", "/proc/out.txt"}
Unwritable == {"/proc/out.txt"}
OutputsOf(s) == IF s \in {"program", "reuse"} THEN OutputPaths ELSE {"out.txt"}

\* the thresholds and language codes the callers of a suite pass
MinLengthsOf(s) ==
  CASE s = "fragments" -> {0, 4, DefaultMinSegmentLength}
    [] s = "cjk" -> {0}
    [] OTHER -> {0, DefaultMinSegmentLength}
LanguagesOf(s) ==
  CASE s = "program" -> {"None", "zh", "ko"}
    [] s = "cjk" -> {"None", "zh", "ja", "en"}
    [] OTHER -> {"None"}

\* the keyword arguments a script passes to process_file: every option, or none
KwargsOf(s) ==
  { [given |-> OptionKeys, remove_timestamps |-> TRUE, merge_duplicates |-> md,
     format_paragraphs |-> fp, min_segment_length |-> ml, language_code |-> lc] :
      md \in BOOLEAN, fp \in BOOLEAN, ml \in MinLengthsOf(s), lc \in LanguagesOf(s) }
  \cup
  { [given |-> {}, remove_timestamps |-> TRUE, merge_duplicates |-> TRUE,
     format_paragraphs |-> TRUE, min_segment_length |-> DefaultMinSegmentLength,
     language_code |-> "None"] }

\* the command lines main() is started with
CommandLines(s) ==
  [flags : SUBSET (StoreTrueFlags \cup UndeclaredFlags),
   input : Corpus(s),
   output : OutputsOf(s),
   min_segment_length :
     {[given |-> FALSE, value |-> 0]}
       \cup {[given |-> TRUE, value |-> v] : v \in MinLengthsOf(s)},
   language_code : LanguagesOf(s)]

\* process_file calls a script makes on one SubtitleCleaner
CallsOf(s) == IF s = "reuse" THEN MaxCalls ELSE 1

(***************************************************************************)
(* State                                                                   *)
(***************************************************************************)
VARIABLES
  suite,        \* which inputs the callers draw from (fixed in a behaviour)
  pc,           \* position of the running program
  caller,       \* "main" (the command line), "script" (a program that calls
                \* process_file itself) or "none"
  args,         \* main(): the parsed command line
  exit_code,    \* the status the process ended with, -1 while it runs
  calls,        \* process_file calls made so far
  input_file,   \* process_file: its arguments and locals
  output_file,
  kwargs,
  data,
  segments,
  text,
  exc,          \* the exception that reached the except clause, or "none"
  self_stats,   \* the dict self.stats of the SubtitleCleaner
  disk,         \* the output files: path -> [exists, text]
  returned      \* the dicts process_file has returned, oldest first; 'stats'
                \* is a reference to self.stats, seen its value at the return

vars ==
  <<suite, pc, caller, args, exit_code, calls, input_file, output_file, kwargs,
    data, segments, text, exc, self_stats, disk, returned>>

NoArgs ==
  [error |-> FALSE, input |-> MissingFile, output |-> "out.txt",
   remove_timestamps |-> TRUE, merge_duplicates |-> TRUE,
   format_paragraphs |-> TRUE, min_segment_length |-> DefaultMinSegmentLength,
   language_code |-> "None", verbose |-> FALSE]
NoKwargs ==
  [given |-> {}, remove_timestamps |-> TRUE, merge_duplicates |-> TRUE,
   format_paragraphs |-> TRUE, min_segment_length |-> DefaultMinSegmentLength,
   language_code |-> "None"]
NoFile == [exists |-> FALSE, text |-> <<>>]

\* the value a 'stats' reference of a returned dict reads now
Deref(ref) == self_stats

InitIn(s) ==
  /\ suite = s
  /\ pc = "start"
  /\ caller = "none"
  /\ args = NoArgs
  /\ exit_code = -1
  /\ calls = 0
  /\ input_file = MissingFile
  /\ output_file = "out.txt"
  /\ kwargs = NoKwargs
  /\ data = MissingFile
  /\ segments = <<>>
  /\ text = <<>>
  /\ exc = "none"
  /\ self_stats = InitStats
  /\ disk = [path \in OutputPaths |-> NoFile]
  /\ returned = <<>>

Init == InitIn("program")

\* the locals of process_file are dead once it has returned
ClearLocals ==
  /\ input_file' = MissingFile
  /\ output_file' = "out.txt"
  /\ kwargs' = NoKwargs
  /\ data' = MissingFile
  /\ segments' = <<>>
  /\ text' = <<>>
  /\ exc' = "none"

\* entry of process_file(input_file, output_file, **kwargs)
EnterProcessFile(f, out, kw) ==
  /\ input_file' = f
  /\ output_file' = out
  /\ kwargs' = kw
  /\ data' = MissingFile
  /\ segments' = <<>>
  /\ text' = <<>>
  /\ exc' = "none"
  /\ calls' = calls + 1
  /\ pc' = "load"

\* an exception raised inside the try block reaches the except clause
Raise(e) ==
  /\ exc' = e
  /\ pc' = "except"

(***************************************************************************)
(* main()                                                                  *)
(***************************************************************************)
\* parse_args: a usage error ends the process with status 2 (--verbose only
\* sets the log level, which nothing of the program reads)
MainParseArgs ==
  /\ pc = "start"
  /\ \E cmd \in CommandLines(suite) :
       LET ns == ParseArgs(cmd)
       IN  IF ns.error
             THEN /\ pc' = "exited"
                  /\ exit_code' = 2
                  /\ UNCHANGED <<caller, args>>
             ELSE /\ pc' = "main_validate"
                  /\ caller' = "main"
                  /\ args' = ns
                  /\ UNCHANGED exit_code
  /\ UNCHANGED <<suite, calls, input_file, output_file, kwargs, data, segments,
                 text, exc, self_stats, disk, returned>>

\* if not Path(args.input).exists(): sys.exit(1)
MainValidateInput ==
  /\ pc = "main_validate"
  /\ IF args.input.kind = "missing"
       THEN pc' = "exited" /\ exit_code' = 1
       ELSE pc' = "main_call" /\ UNCHANGED exit_code
  /\ UNCHANGED <<suite, caller, args, calls, input_file, output_file, kwargs,
                 data, segments, text, exc, self_stats, disk, returned>>

\* cleaner = SubtitleCleaner(); cleaner.process_file(args.input, args.output, ...)
MainCallProcessFile ==
  /\ pc = "main_call"
  /\ self_stats' = InitStats
  /\ EnterProcessFile(args.input, args.output, ProcessingOptions(args))
  /\ UNCHANGED <<suite, caller, args, exit_code, disk, returned>>

\* a main() that ends with status 0 whatever process_file returned
ExitStatusAlwaysZero(result) == 0

\* the status main() ends with, given the dict process_file returned
ExitStatus(result) == IF result.success THEN 0 ELSE 1

\* if result['success']: ... sys.exit(0) else: ... sys.exit(1)
MainReport ==
  /\ pc = "returned"
  /\ caller = "main"
  /\ pc' = "exited"
  /\ exit_code' = ExitStatus(returned[Len(returned)])
  /\ UNCHANGED <<suite, caller, args, calls, input_file, output_file, kwargs,
                 data, segments, text, exc, self_stats, disk, returned>>

(***************************************************************************)
(* A script that makes one SubtitleCleaner and calls process_file on it    *)
(***************************************************************************)
\* SubtitleCleaner()
ScriptConstruct ==
  /\ pc = "start"
  /\ pc' = "idle"
  /\ caller' = "script"
  /\ self_stats' = InitStats
  /\ UNCHANGED <<suite, args, exit_code, calls, input_file, output_file, kwargs,
                 data, segments, text, exc, disk, returned>>

ScriptCallProcessFile ==
  /\ pc = "idle"
  /\ calls < CallsOf(suite)
  /\ \E f \in Corpus(suite), out \in OutputsOf(suite), kw \in KwargsOf(suite) :
       EnterProcessFile(f, out, kw)
  /\ UNCHANGED <<suite, caller, args, exit_code, self_stats, disk, returned>>

\* the script takes the returned dict and goes on
ScriptReceive ==
  /\ pc = "returned"
  /\ caller = "script"
  /\ pc' = "idle"
  /\ ClearLocals
  /\ UNCHANGED <<suite, caller, args, exit_code, calls, self_stats, disk, returned>>

(***************************************************************************)
(* process_file, one action per statement of its try block                 *)
(***************************************************************************)
\* the exception load_json3_file raises on this file, "none" when it loads
LoadError(f) ==
  CASE f.kind = "missing" -> "FileNotFoundError"
    [] f.kind = "invalid_json" -> "JSONDecodeError"
    [] f.kind = "no_events" -> "ValueError"
    [] OTHER -> "none"

\* data = self.load_json3_file(input_file)
LoadJson3File ==
  /\ pc = "load"
  /\ IF LoadError(input_file) # "none"
       THEN Raise(LoadError(input_file)) /\ UNCHANGED data
       ELSE data' = input_file /\ pc' = "extract" /\ UNCHANGED exc
  /\ UNCHANGED <<suite, caller, args, exit_code, calls, input_file, output_file,
                 kwargs, segments, text, self_stats, disk, returned>>

\* segments = self.extract_text_segments(data)
ExtractStep ==
  /\ pc = "extract"
  /\ IF ExtractRaises(data)
       THEN Raise("AttributeError") /\ UNCHANGED <<segments, self_stats>>
       ELSE LET r == ExtractTextSegments(data, self_stats)
            IN  /\ segments' = r.ret
                /\ self_stats' = r.stats
                /\ pc' = "dedupe"
                /\ UNCHANGED exc
  /\ UNCHANGED <<suite, caller, args, exit_code, calls, input_file, output_file,
                 kwargs, data, text, disk, returned>>

\* if kwargs.get('merge_duplicates', True): segments = self.remove_duplicates(segments)
RemoveDuplicatesStep ==
  /\ pc = "dedupe"
  /\ IF KwargsGet(kwargs, "merge_duplicates", TRUE)
       THEN LET r == RemoveDuplicates(segments, self_stats)
            IN  segments' = r.ret /\ self_stats' = r.stats
       ELSE UNCHANGED <<segments, self_stats>>
  /\ pc' = "merge"
  /\ UNCHANGED <<suite, caller, args, exit_code, calls, input_file, output_file,
                 kwargs, data, text, exc, disk, returned>>

\* min_length = kwargs.get('min_segment_length', 10)
\* if min_length > 0: segments = self.merge_consecutive_segments(segments, min_length)
MergeStep ==
  /\ pc = "merge"
  /\ LET min_length == KwargsGet(kwargs, "min_segment_length", DefaultMinSegmentLength)
     IN  IF min_length > 0
           THEN segments' = MergeConsecutiveSegments(segments, min_length)
           ELSE UNCHANGED segments
  /\ pc' = "format"
  /\ UNCHANGED <<suite, caller, args, exit_code, calls, input_file, output_file,
                 kwargs, data, text, exc, self_stats, disk, returned>>

\* the text handed to clean_text: format_paragraphs(segments) or ' '.join(segments)
JoinedText(segs, kw) ==
  IF KwargsGet(kw, "format_paragraphs", TRUE)
    THEN FormatParagraphs(segs)
    ELSE Join(<<SP>>, segs)

FormatStep ==
  /\ pc = "format"
  /\ text' = JoinedText(segments, kwargs)
  /\ pc' = "clean"
  /\ UNCHANGED <<suite, caller, args, exit_code, calls, input_file, output_file,
                 kwargs, data, segments, exc, self_stats, disk, returned>>

\* language_code = kwargs.get('language_code'); text = self.clean_text(text, language_code)
CleanStep ==
  /\ pc = "clean"
  /\ LET language_code == KwargsGet(kwargs, "language_code", "None")
     IN  IF CleanTextRaises(language_code)
           THEN Raise("re.error") /\ UNCHANGED text
           ELSE /\ text' = CleanText(text, language_code)
                /\ pc' = "stats"
                /\ UNCHANGED exc
  /\ UNCHANGED <<suite, caller, args, exit_code, calls, input_file, output_file,
                 kwargs, data, segments, self_stats, disk, returned>>

\* the three statistics process_file sets after cleaning
StatsStep ==
  /\ pc = "stats"
  /\ self_stats' = [self_stats EXCEPT !.processed_segments = Len(segments),
                                      !.total_characters = Len(text),
                                      !.total_words = WordCount(text)]
  /\ pc' = "save"
  /\ UNCHANGED <<suite, caller, args, exit_code, calls, input_file, output_file,
                 kwargs, data, segments, text, exc, disk, returned>>

\* _save_output_file raises: the directory or the file cannot be written
SaveRaises(path) == path \in Unwritable

\* self._save_output_file(output_file, text)
SaveOutputFile ==
  /\ pc = "save"
  /\ IF SaveRaises(output_file)
       THEN /\ Raise("OSError")
            \* mkdir or open failed (nothing written), or the write failed
            \* after open(..., 'w') had created or truncated the file
            /\ disk' \in {disk, [disk EXCEPT ![output_file] =
                                           [exists |-> TRUE, text |-> <<>>]]}
       ELSE /\ disk' = [disk EXCEPT ![output_file] = [exists |-> TRUE, text |-> text]]
            /\ pc' = "finish"
            /\ UNCHANGED exc
  /\ UNCHANGED <<suite, caller, args, exit_code, calls, input_file, output_file,
                 kwargs, data, segments, text, self_stats, returned>>

\* the dict of the return statement of the try block
SuccessDict(stats) ==
  [success |-> TRUE, error |-> "none", stats |-> "self.stats",
   output_file |-> output_file, input_file |-> input_file, seen |-> stats]

\* the dict of the return statement of the except clause
FailureDict(e, stats) ==
  [success |-> FALSE, error |-> e, stats |-> "self.stats",
   output_file |-> "absent", input_file |-> MissingFile, seen |-> stats]

\* self.stats['processing_time'] = elapsed seconds; return {'success': True, ...}
Finish ==
  /\ pc = "finish"
  /\ \E elapsed \in 0..MaxSeconds :
       /\ self_stats' = [self_stats EXCEPT !.processing_time = elapsed]
       /\ returned' = Append(returned, SuccessDict(self_stats'))
  /\ pc' = "returned"
  /\ UNCHANGED <<suite, caller, args, exit_code, calls, input_file, output_file,
                 kwargs, data, segments, text, exc, disk>>

\* except Exception as e: return {'success': False, ...}
ExceptHandler ==
  /\ pc = "except"
  /\ returned' = Append(returned, FailureDict(exc, self_stats))
  /\ pc' = "returned"
  /\ UNCHANGED <<suite, caller, args, exit_code, calls, input_file, output_file,
                 kwargs, data, segments, text, exc, self_stats, disk>>

Next ==
  \/ MainParseArgs
  \/ MainValidateInput
  \/ MainCallProcessFile
  \/ MainReport
  \/ ScriptConstruct
  \/ ScriptCallProcessFile
  \/ ScriptReceive
  \/ LoadJson3File
  \/ ExtractStep
  \/ RemoveDuplicatesStep
  \/ MergeStep
  \/ FormatStep
  \/ CleanStep
  \/ StatsStep
  \/ SaveOutputFile
  \/ Finish
  \/ ExceptHandler

\* the command line and a script, over the files of the "program" suite
Spec == Init /\ [][Next]_vars
\* a script that reuses one SubtitleCleaner for several calls
InitReuse == InitIn("reuse")
SpecReuse == InitReuse /\ [][Next]_vars
\* documents of short and long caption fragments, with repetitions
InitFragments == InitIn("fragments")
SpecFragments == InitFragments /\ [][Next]_vars
\* documents of sentences, with brackets and discourse markers
InitSentences == InitIn("sentences")
SpecSentences == InitSentences /\ [][Next]_vars
\* documents of ideographs and Latin letters
InitCJK == InitIn("cjk")
SpecCJK == InitCJK /\ [][Next]_vars

(***************************************************************************)
(* process_file as one function: what it computes for a file and options   *)
(* on a SubtitleCleaner whose self.stats is stats0                         *)
(***************************************************************************)
PipelineRun(f, out, kw, stats0) ==
  IF LoadError(f) # "none" \/ ExtractRaises(f)
    THEN [success |-> FALSE, text |-> <<>>, stats |-> stats0]
  ELSE
    LET e == ExtractTextSegments(f, stats0)
        d == IF KwargsGet(kw, "merge_duplicates", TRUE)
               THEN RemoveDuplicates(e.ret, e.stats) ELSE e
        min_length == KwargsGet(kw, "min_segment_length", DefaultMinSegmentLength)
        m == IF min_length > 0
               THEN MergeConsecutiveSegments(d.ret, min_length) ELSE d.ret
        language_code == KwargsGet(kw, "language_code", "None")
        t == CleanText(JoinedText(m, kw), language_code)
    IN  IF CleanTextRaises(language_code)
          THEN [success |-> FALSE, text |-> <<>>, stats |-> d.stats]
          ELSE [success |-> ~SaveRaises(out), text |-> t,
                stats |-> [d.stats EXCEPT !.processed_segments = Len(m),
                                          !.total_characters = Len(t),
                                          !.total_words = WordCount(t)]]

(***************************************************************************)
(* Definitions the properties below share                                  *)
(***************************************************************************)
\* the fragments extract_text_segments returned in the running call
Extracted == ExtractTextSegments(data, InitStats).ret

\* the fragments the running call handed to merge_consecutive_segments
BeforeMerge ==
  IF KwargsGet(kwargs, "merge_duplicates", TRUE)
    THEN RemoveDuplicates(Extracted, InitStats).ret
    ELSE Extracted

MinLength == KwargsGet(kwargs, "min_segment_length", DefaultMinSegmentLength)

\* the statement of the Deduplicator: keep the first fragment, and a later one
\* only if it differs from the last fragment kept
RECURSIVE KeepIfDiffersFromLastKept(_, _)
KeepIfDiffersFromLastKept(fragments, kept) ==
  IF fragments = <<>> THEN kept
  ELSE IF kept = <<>> \/ Head(fragments) # kept[Len(kept)]
    THEN KeepIfDiffersFromLastKept(Tail(fragments), Append(kept, Head(fragments)))
  ELSE KeepIfDiffersFromLastKept(Tail(fragments), kept)

NoAdjacentEqual(q) == \A i \in 1..(Len(q) - 1) : q[i] # q[i + 1]

\* a span that opens with opener and closes with a later closer
HasSpan(s, opener, closer) ==
  \E i \in DOMAIN s : \E j \in DOMAIN s : i < j /\ s[i] = opener /\ s[j] = closer
NoSpans(s) ==
  ~HasSpan(s, "[", "]") /\ ~HasSpan(s, "(", ")") /\ ~HasSpan(s, "<", ">")

\* whitespace lying directly between two ideographs
SpaceBetweenCJK(s) ==
  \E i \in DOMAIN s : \E j \in DOMAIN s :
     /\ i + 1 < j
     /\ s[i] \in CJK /\ s[j] \in CJK
     /\ \A k \in (i + 1)..(j - 1) : IsSpace(s[k])

\* the sentences of the text format_paragraphs works on, as its loop sees
\* them: stripped, the empty ones skipped
NonEmptySentences(segs) ==
  LET stripped == [i \in DOMAIN Sentences(segs) |-> Strip(Sentences(segs)[i])]
  IN  SelectSeq(stripped, LAMBDA x : x # <<>>)

HasIndicator(sentence) ==
  \E indicator \in Indicators : Contains(Lower(sentence), indicator)

\* ceil(n / 3)
CeilThird(n) == (n + ParagraphSentences - 1) \div ParagraphSentences

\* sentences 3k-2 .. 3k (or to the last one) joined by a space
Chunk(sents, k) ==
  LET lo == ParagraphSentences * (k - 1) + 1
      hi == IF ParagraphSentences * k < Len(sents)
              THEN ParagraphSentences * k ELSE Len(sents)
  IN  Join(<<SP>>, SubSeq(sents, lo, hi))

\* the number of double line breaks in a text
CountBreaks(s) ==
  Cardinality({i \in 1..(Len(s) - 1) : s[i] = NL /\ s[i + 1] = NL})

\* the statistics without the elapsed time
Counters(stats) == [stats EXCEPT !.processing_time = 0]

(***************************************************************************)
(* Properties                                                              *)
(***************************************************************************)

\* C1: when remove_duplicates has run, the fragments it returned are exactly
\* the extracted fragments with the first one kept and each later one kept
\* only if it differs from the last fragment kept; the result has no two
\* adjacent equal fragments and is no longer than the input.
C1_DedupKeepsIfDiffersFromLastKept ==
  (pc = "merge" /\ KwargsGet(kwargs, "merge_duplicates", TRUE)) =>
    /\ segments = KeepIfDiffersFromLastKept(Extracted, <<>>)
    /\ NoAdjacentEqual(segments)
    /\ Len(segments) <= Len(Extracted)

\* a run of three identical fragments followed by another one has collapsed
\* to a single fragment
C1_Witness ==
  /\ pc = "merge"
  /\ KwargsGet(kwargs, "merge_duplicates", TRUE)
  /\ Extracted = <<Hello, Hello, Hello, Hi>>
  /\ segments = <<Hello, Hi>>

\* C2 (as claimed): after merge_consecutive_segments the fragment list is no
\* longer than its input and every fragment has at least min_length
\* characters or is the last input fragment emitted unchanged at the end.
C2_EveryFragmentLongOrFinalRemainder ==
  pc = "format" =>
    /\ Len(segments) <= Len(BeforeMerge)
    /\ \A i \in DOMAIN segments :
         \/ Len(segments[i]) >= MinLength
         \/ i = Len(segments) /\ segments[i] = BeforeMerge[Len(BeforeMerge)]

\* C2 (amended): after merge_consecutive_segments the fragment list is no
\* longer than its input and every fragment has at least min_length
\* characters, or is the join by one space of a short input fragment and the
\* input fragment after it (not checked again), or is the last input
\* fragment emitted unchanged at the end.
C2_EveryFragmentLongMergedOrFinalRemainder ==
  pc = "format" =>
    /\ Len(segments) <= Len(BeforeMerge)
    /\ \A i \in DOMAIN segments :
         \/ Len(segments[i]) >= MinLength
         \/ \E j \in 1..(Len(BeforeMerge) - 1) :
              /\ Len(BeforeMerge[j]) < MinLength
              /\ segments[i] = BeforeMerge[j] \o <<SP>> \o BeforeMerge[j + 1]
         \/ i = Len(segments) /\ segments[i] = BeforeMerge[Len(BeforeMerge)]

\* the merger has produced a merged fragment that is still short and is
\* followed by another fragment
C2_Witness ==
  /\ pc = "format"
  /\ MinLength = DefaultMinSegmentLength
  /\ BeforeMerge = <<Hi, Hello, ThereHow>>
  /\ segments = <<Hi \o <<SP>> \o Hello, ThereHow>>

\* C3: with format_paragraphs enabled, when format_paragraphs emitted two or
\* more paragraphs the text clean_text returns still holds a double line
\* break.
C3_ParagraphBreaksSurviveCleaning ==
  (/\ pc = "stats"
   /\ KwargsGet(kwargs, "format_paragraphs", TRUE)
   /\ Len(Paragraphs(segments)) >= 2)
    => Contains(text, <<NL, NL>>)

\* C4: for every text passed to clean_text, what the three removals leave
\* holds no '[' with a later ']', no '(' with a later ')' and no '<' with a
\* later '>'.
C4_RemovalLeavesNoSpan ==
  pc = "clean" => NoSpans(RemoveArtifacts(text))

\* C5: with language code 'zh', the text clean_text returns has no
\* whitespace lying directly between two ideographs.
C5_NoSpaceBetweenIdeographs ==
  (pc = "stats" /\ KwargsGet(kwargs, "language_code", "None") = "zh")
    => ~SpaceBetweenCJK(text)

\* C6: when the text format_paragraphs works on consists of N >= 1 sentences
\* that each end in '.', '!' or '?' and hold no discourse marker, the text it
\* returns is the ceil(N/3) paragraphs of sentences 1-3, 4-6, ... in order
\* (the last one holding the 1 to 3 left over), joined by double line breaks.
C6_ParagraphsOfThree ==
  (pc = "clean" /\ KwargsGet(kwargs, "format_paragraphs", TRUE)) =>
    LET sents == NonEmptySentences(segments)
        n == Len(sents)
    IN  (/\ n >= 1
         /\ \A i \in DOMAIN sents : EndsWithMark(sents[i]) /\ ~HasIndicator(sents[i]))
          => /\ text = Join(<<NL, NL>>, [k \in 1..CeilThird(n) |-> Chunk(sents, k)])
             /\ CountBreaks(text) = CeilThird(n) - 1

\* seven sentences have been formatted into the paragraphs 1-3, 4-6 and 7
C6_Witness ==
  /\ pc = "clean"
  /\ KwargsGet(kwargs, "format_paragraphs", TRUE)
  /\ segments = <<HiDot, NoBang, HiDot, NoBang, HiDot, NoBang, HiDot>>
  /\ text = Join(<<NL, NL>>,
                 << Join(<<SP>>, <<HiDot, NoBang, HiDot>>),
                    Join(<<SP>>, <<NoBang, HiDot, NoBang>>),
                    HiDot >>)

\* C7: the statistics a process_file call returns are those a fresh
\* SubtitleCleaner reports for the same file and options (the elapsed time
\* aside, which is 0 when the call fails), and the statistics an earlier
\* call returned still read as they did when it returned.
C7_StatisticsPerCall ==
  /\ pc = "returned" =>
       LET fresh == PipelineRun(input_file, output_file, kwargs, InitStats)
           result == returned[Len(returned)]
       IN  /\ Counters(Deref(result.stats)) = Counters(fresh.stats)
           /\ ~result.success => Deref(result.stats).processing_time = 0
  /\ \A i \in DOMAIN returned : Deref(returned[i].stats) = returned[i].seen

\* the failures of a run: the input cannot be loaded, a stage raises, or the
\* output cannot be saved
Fails(f, out, kw) ==
  \/ f.kind # "ok"
  \/ ExtractRaises(f)
  \/ CleanTextRaises(KwargsGet(kw, "language_code", "None"))
  \/ out \in Unwritable

\* C8: a command-line run that got past argument parsing ends with status 0
\* only if loading, every stage and the save succeeded, and then the output
\* file holds the cleaned text; on any failure it ends with status 1, and
\* process_file returns success=False whenever a failure occurred in it.
C8_ExitStatusReflectsOutcome ==
  /\ (pc = "exited" /\ caller = "main") =>
       /\ Fails(args.input, args.output, ProcessingOptions(args)) => exit_code = 1
       /\ exit_code = 0 =>
            /\ ~Fails(args.input, args.output, ProcessingOptions(args))
            /\ returned # <<>> /\ returned[Len(returned)].success
            /\ disk[args.output] =
                 [exists |-> TRUE,
                  text |-> PipelineRun(args.input, args.output,
                                       ProcessingOptions(args), InitStats).text]
  /\ pc = "returned" =>
       (Fails(input_file, output_file, kwargs) => ~returned[Len(returned)].success)

\* a command-line run went through every stage, the save failed, and the
\* run ended with status 1 without creating the output file
C8_Witness ==
  /\ pc = "exited"
  /\ caller = "main"
  /\ exc = "OSError"
  /\ args.output \in Unwritable
  /\ ~returned[Len(returned)].success
  /\ exit_code = 1
  /\ ~disk[args.output].exists

\* C9: for each of merge_duplicates and format_paragraphs and each truth
\* value there is a command line main() accepts that makes process_file
\* receive that value.
C9_EachFlagTakesBothValues ==
  \A key \in {"merge_duplicates", "format_paragraphs"} : \A v \in BOOLEAN :
    \E cmd \in CommandLines(suite) :
      /\ ~ParseArgs(cmd).error
      /\ ProcessingOptions(ParseArgs(cmd))[key] = v

\* C10: joining the output of merge_consecutive_segments with single spaces
\* gives the same text as joining its input, and the text process_file
\* produces is the one it produces without any merging.
C10_MergerKeepsText ==
  /\ pc = "format" => Join(<<SP>>, segments) = Join(<<SP>>, BeforeMerge)
  /\ pc \in {"stats", "save", "finish"} =>
       text = CleanText(JoinedText(BeforeMerge, kwargs),
                        KwargsGet(kwargs, "language_code", "None"))

\* a call in which the merger joined fragments has produced its text
C10_Witness ==
  /\ pc = "stats"
  /\ MinLength > 0
  /\ Len(segments) < Len(BeforeMerge)
  /\ text # <<>>

=============================================================================
